---- MODULE Spec2Model ----
(***************************************************************************)
(* Model of the bulk e-mail sender in src/app/__init__.py: start() loads   *)
(* the recipients and the checkpoint file last_sent.txt, computes the      *)
(* resume offset, and then either sends one test message or runs the       *)
(* send / checkpoint / sleep loop.                                         *)
(*                                                                         *)
(* Strings are sequences of one-character strings, so that str.strip() of  *)
(* get_last_sent() is computed and not assumed.  Indices are 0-based as in *)
(* the Python source; R(k) reads recipients[k].                            *)
(***************************************************************************)
EXTENDS Integers, Sequences, FiniteSets, TLC

VARIABLES
  csv_file,         \* recipients.csv: [exists, header, rows], rows being the Email cells in file order
  config_file,      \* config.json: [loads, keys]
  recipients,       \* local of start(): the rows load_recipients() returned
  last_sent_file,   \* last_sent.txt: [exists, content]
  test_mode,        \* config["test"]
  test_email,       \* config["test_email_recipient"]
  pc,               \* position of the process inside start()
  last_sent_email,  \* local of start(): value returned by get_last_sent()
  start_index,      \* local of start()
  i,                \* loop variable of the for loop of start()
  log,              \* calls made by the current run, in order
  delivered,        \* delivered[k+1]: messages the provider accepted for recipients[k], over all runs
  run,              \* number of the current run of the process
  prev_pc,          \* how the previous run of the process ended ("none" in the first run)
  unpaced           \* messages the provider accepted since the last completed long pause, over all runs

vars == <<csv_file, config_file, recipients, last_sent_file, test_mode, test_email, pc,
          last_sent_email, start_index, i, log, delivered, run, prev_pc, unpaced>>

-----------------------------------------------------------------------------
(* Bounds *)

MaxRecipients == 3
MaxPacingLen == 14
MaxRuns == 2
MaxCount == 2
MaxResumeLen == 7
MaxLoadRows == 2
MaxLiveLen == 2

-----------------------------------------------------------------------------
(* Strings *)

Whitespace == {" "}

\* Values an Email cell of the CSV can hold: csv.DictReader does no
\* validation or trimming, so empty and space-padded cells are kept as read.
EmailCells == { <<"a">>, <<"b">>, <<"a", " ">>, <<>> }

\* Contents last_sent.txt can have when the process starts.
FileContents == EmailCells \cup { <<"c">>, <<" ">>, <<" ", "b">> }

\* Python's None as returned by get_last_sent(); not a character sequence.
None == <<"None">>

RECURSIVE lstrip(_)
lstrip(s) ==
  IF s = <<>> THEN <<>>
  ELSE IF Head(s) \in Whitespace THEN lstrip(Tail(s)) ELSE s

RECURSIVE rstrip(_)
rstrip(s) ==
  IF s = <<>> THEN <<>>
  ELSE IF s[Len(s)] \in Whitespace THEN rstrip(SubSeq(s, 1, Len(s) - 1)) ELSE s

strip(s) == rstrip(lstrip(s))

-----------------------------------------------------------------------------
(* Checkpoint store *)

NoFile == [exists |-> FALSE, content |-> <<>>]

get_last_sent(f) ==
  IF f.exists
  THEN LET last_email == strip(f.content)
       IN  IF last_email # <<>> THEN last_email ELSE None
  ELSE None

set_last_sent(email) == [exists |-> TRUE, content |-> email]

-----------------------------------------------------------------------------
(* start(): resume offset *)

R(k) == recipients[k + 1]

total_recipients == Len(recipients)

\* The scan without its break: the last match wins.
RECURSIVE scan_nobreak(_, _, _)
scan_nobreak(rs, last, k) ==
  IF k >= Len(rs) THEN 0
  ELSE LET later == scan_nobreak(rs, last, k + 1)
       IN  IF later # 0 THEN later
           ELSE IF rs[k + 1] = last THEN k + 1 ELSE 0

\* The for loop over enumerate(recipients) with its break: the offset the
\* scan yields when it is at index k.
RECURSIVE scan(_, _, _)
scan(rs, last, k) ==
  IF k >= Len(rs) THEN 0
  ELSE IF rs[k + 1] = last THEN k + 1
  ELSE scan(rs, last, k + 1)

resume_offset(rs, last) ==
  IF last # None /\ last # <<>> THEN scan(rs, last, 0) ELSE 0

-----------------------------------------------------------------------------
(* Log entries *)

\* idx: the recipient the call is made for; dest: the address (send) or the
\* value written (write); ok: the call returned normally; secs: time.sleep.
EvRender(k, ok)  == [op |-> "render", idx |-> k, dest |-> <<>>, ok |-> ok, secs |-> 0]
EvSend(k, d, ok) == [op |-> "send", idx |-> k, dest |-> d, ok |-> ok, secs |-> 0]
EvWrite(k, e)    == [op |-> "write", idx |-> k, dest |-> e, ok |-> TRUE, secs |-> 0]
EvSleep(k, s)    == [op |-> "sleep", idx |-> k, dest |-> <<>>, ok |-> TRUE, secs |-> s]

-----------------------------------------------------------------------------
(* Recipient source *)

required_headers ==
  {"First Name", "Last Name", "Email", "Phone", "Address", "Profession", "Stage", "Industry", "LinkedIn"}

\* A column the program does not know.
ExtraHeaders == {"Notes"}

\* sys.exit(1) inside load_recipients: no list is returned.
LoadExit == [ok |-> FALSE, rows |-> <<>>]

\* The loop "for row in reader: recipients.append(row)".
RECURSIVE append_rows(_, _)
append_rows(rows, acc) ==
  IF rows = <<>> THEN acc ELSE append_rows(Tail(rows), Append(acc, Head(rows)))

load_recipients_unchecked(f) ==
  IF ~f.exists THEN LoadExit
  ELSE [ok |-> TRUE, rows |-> append_rows(f.rows, <<>>)]

load_recipients(f) ==
  IF ~f.exists THEN LoadExit
  ELSE IF ~(required_headers \subseteq f.header) THEN LoadExit
  ELSE [ok |-> TRUE, rows |-> append_rows(f.rows, <<>>)]

CsvFile(rows) == [exists |-> TRUE, header |-> required_headers, rows |-> rows]

-----------------------------------------------------------------------------
(* Configuration *)

RequiredKeys == {"subject", "test", "test_email_recipient"}

\* Config("config.json") raises ConfigError when the file cannot be loaded.
Config(cf) == cf.loads

\* config[key] raises KeyError when the key is missing.
config_has(cf, key) == key \in cf.keys

FullConfig == [loads |-> TRUE, keys |-> RequiredKeys]

\* config.json unloadable, or lacking one of the keys start() reads.
BadConfigs ==
  { [loads |-> FALSE, keys |-> {}] } \cup { [loads |-> TRUE, keys |-> RequiredKeys \ {k}] : k \in RequiredKeys }

\* recipients.csv missing, or lacking one required header.
BadCsvFiles(rows) ==
  { [exists |-> FALSE, header |-> {}, rows |-> <<>>] }
    \cup { [exists |-> TRUE, header |-> required_headers \ {h}, rows |-> rows] : h \in {"Email", "LinkedIn"} }

-----------------------------------------------------------------------------
(* Initial states *)

RecipientLists(n) == UNION { [1..m -> EmailCells] : m \in 0..n }

InitRun ==
  /\ recipients = <<>>
  /\ pc = "start"
  /\ last_sent_email = None
  /\ start_index = 0
  /\ i = 0
  /\ log = <<>>
  /\ delivered = [k \in 1..Len(csv_file.rows) |-> 0]
  /\ run = 1
  /\ prev_pc = "none"
  /\ unpaced = 0

\* Inputs with which start() gets past its fatal checks of lines 249-268.
InitGood ==
  /\ config_file = FullConfig
  /\ \E rows \in RecipientLists(MaxRecipients) : csv_file = CsvFile(rows)
  /\ last_sent_file \in {NoFile} \cup { set_last_sent(c) : c \in FileContents }
  /\ test_mode \in BOOLEAN
  /\ test_email \in { <<>>, <<"t">> }

\* Inputs with a missing or unusable config.json or recipients.csv.
InitFatal ==
  /\ \E rows \in RecipientLists(1) :
       \/ config_file \in BadConfigs /\ csv_file \in {CsvFile(rows)} \cup BadCsvFiles(rows)
       \/ config_file = FullConfig /\ csv_file \in BadCsvFiles(rows)
  /\ last_sent_file \in {NoFile} \cup { set_last_sent(c) : c \in FileContents }
  /\ test_mode = FALSE
  /\ test_email = <<"t">>

Init ==
  /\ InitGood \/ InitFatal
  /\ InitRun

\* A list of n distinct addresses without surrounding whitespace.
Address(k) == [j \in 1..k |-> "a"]

AddressList(n) == [k \in 1..n |-> Address(k)]

InitPacing ==
  /\ config_file = FullConfig
  /\ \E n \in 0..MaxPacingLen : csv_file = CsvFile(AddressList(n))
  /\ last_sent_file \in {NoFile} \cup { set_last_sent(Address(k)) : k \in 1..(Len(csv_file.rows) + 1) }
  /\ test_mode \in BOOLEAN
  /\ test_email \in { <<>>, <<"t">> }
  /\ InitRun

\* Lists long enough for a resumed run to pass the 6th send since the last
\* long pause.
InitResume ==
  /\ config_file = FullConfig
  /\ \E n \in 0..MaxResumeLen : csv_file = CsvFile(AddressList(n))
  /\ last_sent_file \in {NoFile} \cup { set_last_sent(Address(k)) : k \in 1..(Len(csv_file.rows) + 1) }
  /\ test_mode \in BOOLEAN
  /\ test_email = <<"t">>
  /\ InitRun

\* Every header row over the known columns and one unknown column.
InitLoad ==
  /\ config_file = FullConfig
  /\ \E rows \in UNION { [1..m -> {<<"a">>, <<"b">>, <<>>}] : m \in 0..MaxLoadRows } :
       \/ csv_file = [exists |-> FALSE, header |-> {}, rows |-> <<>>]
       \/ \E h \in SUBSET (required_headers \cup ExtraHeaders) :
            csv_file = [exists |-> TRUE, header |-> h, rows |-> rows]
  /\ last_sent_file = NoFile
  /\ test_mode \in BOOLEAN
  /\ test_email = <<"t">>
  /\ InitRun

\* Normal-mode inputs over short lists of any Email cells.
InitLive ==
  /\ config_file = FullConfig
  /\ \E rows \in RecipientLists(MaxLiveLen) : csv_file = CsvFile(rows)
  /\ last_sent_file \in {NoFile} \cup { set_last_sent(c) : c \in FileContents }
  /\ test_mode = FALSE
  /\ test_email = <<"t">>
  /\ InitRun

-----------------------------------------------------------------------------
(* start(), lines 247-289: startup *)

\* What a run never changes: recipients.csv and config.json.
config == <<csv_file, config_file, test_mode, test_email>>

\* The nothing-to-do test of line 280 written with > instead of >=.
Startup_OffByOne ==
  /\ pc = "start"
  /\ LET loaded == load_recipients(csv_file)
         keys_ok == \A key \in RequiredKeys : config_has(config_file, key)
         fatal  == ~Config(config_file) \/ ~loaded.ok \/ ~keys_ok
         rs     == IF Config(config_file) /\ loaded.ok THEN loaded.rows ELSE <<>>
         last   == get_last_sent(last_sent_file)
         start  == resume_offset(rs, last)
     IN  /\ recipients' = rs
         /\ IF fatal
            THEN /\ pc' = "exit1"
                 /\ UNCHANGED <<last_sent_email, start_index, i>>
            ELSE /\ last_sent_email' = last
                 /\ start_index' = start
                 /\ i' = start
                 /\ pc' = IF start > Len(rs) THEN "all_sent"
                          ELSE IF test_mode
                               THEN (IF test_email = <<>> THEN "exit1" ELSE "test")
                               ELSE "loop"
  /\ UNCHANGED <<config, last_sent_file, log, delivered, run, prev_pc, unpaced>>

\* Startup with a load_recipients that does not look at the header row.
Startup_NoHeaderCheck ==
  /\ pc = "start"
  /\ LET loaded == load_recipients_unchecked(csv_file)
         keys_ok == \A key \in RequiredKeys : config_has(config_file, key)
         fatal  == ~Config(config_file) \/ ~loaded.ok \/ ~keys_ok
         rs     == IF Config(config_file) /\ loaded.ok THEN loaded.rows ELSE <<>>
         last   == get_last_sent(last_sent_file)
         start  == resume_offset(rs, last)
     IN  /\ recipients' = rs
         /\ IF fatal
            THEN /\ pc' = "exit1"
                 /\ UNCHANGED <<last_sent_email, start_index, i>>
            ELSE /\ last_sent_email' = last
                 /\ start_index' = start
                 /\ i' = start
                 /\ pc' = IF start >= Len(rs) THEN "all_sent"
                          ELSE IF test_mode
                               THEN (IF test_email = <<>> THEN "exit1" ELSE "test")
                               ELSE "loop"
  /\ UNCHANGED <<config, last_sent_file, log, delivered, run, prev_pc, unpaced>>

\* Lines 249-289: load config.json and recipients.csv, read the three keys,
\* read the checkpoint, compute the offset and branch.
Startup ==
  /\ pc = "start"
  /\ LET loaded == load_recipients(csv_file)
         keys_ok == \A key \in RequiredKeys : config_has(config_file, key)
         fatal  == ~Config(config_file) \/ ~loaded.ok \/ ~keys_ok
         rs     == IF Config(config_file) /\ loaded.ok THEN loaded.rows ELSE <<>>
         last   == get_last_sent(last_sent_file)
         start  == resume_offset(rs, last)
     IN  /\ recipients' = rs
         /\ IF fatal
            THEN /\ pc' = "exit1"
                 /\ UNCHANGED <<last_sent_email, start_index, i>>
            ELSE /\ last_sent_email' = last
                 /\ start_index' = start
                 /\ i' = start
                 /\ pc' = IF start >= Len(rs) THEN "all_sent"
                          ELSE IF test_mode
                               THEN (IF test_email = <<>> THEN "exit1" ELSE "test")
                               ELSE "loop"
  /\ UNCHANGED <<config, last_sent_file, log, delivered, run, prev_pc, unpaced>>

-----------------------------------------------------------------------------
(* start(), lines 290-311: the test-mode branch *)

\* generate_funny_image(recipients[0]) and generate_email_body(...): either
\* may raise, which the except of line 309 logs before the return.
TestRender ==
  /\ pc = "test"
  /\ \E ok \in BOOLEAN :
       /\ log' = Append(log, EvRender(0, ok))
       /\ pc' = IF ok THEN "test_rendered" ELSE "test_done"
  /\ UNCHANGED <<config, recipients, last_sent_file, last_sent_email, start_index, i, delivered, run, prev_pc, unpaced>>

\* The test message addressed to the recipient instead of the test address.
TestSend_ToRecipient ==
  /\ pc = "test_rendered"
  /\ \E ok \in BOOLEAN : log' = Append(log, EvSend(0, R(0), ok))
  /\ pc' = "test_done"
  /\ UNCHANGED <<config, recipients, last_sent_file, last_sent_email, start_index, i, delivered, run, prev_pc, unpaced>>

\* send_message(destination=test_email, ...) with the body of recipients[0].
TestSend ==
  /\ pc = "test_rendered"
  /\ \E ok \in BOOLEAN : log' = Append(log, EvSend(0, test_email, ok))
  /\ pc' = "test_done"
  /\ UNCHANGED <<config, recipients, last_sent_file, last_sent_email, start_index, i, delivered, run, prev_pc, unpaced>>

-----------------------------------------------------------------------------
(* start(), lines 313-347: the normal-mode loop *)

LongPauseEvery == 6
LongPause == 3600
ShortPause == 600

\* The cadence counted by list position instead of by sends of this run.
pause_secs_abs(idx, start) ==
  IF (idx + 1) % LongPauseEvery = 0 THEN LongPause ELSE ShortPause

pause_secs(idx, start) ==
  IF (idx - start + 1) % LongPauseEvery = 0 THEN LongPause ELSE ShortPause

\* Counters of the provider's side, kept up to a cap.
count_up(n, cap) == IF n < cap THEN n + 1 ELSE n

accept(d, k) == [d EXCEPT ![k + 1] = count_up(@, MaxCount)]

\* A failed render that is tried again for the same recipient.
LoopRender_Retry ==
  /\ pc = "loop"
  /\ \E ok \in BOOLEAN :
       /\ log' = Append(log, EvRender(i, ok))
       /\ pc' = IF ok THEN "rendered" ELSE "loop"
  /\ UNCHANGED <<config, recipients, last_sent_file, last_sent_email, start_index, i, delivered, run, prev_pc, unpaced>>

\* Lines 317-321: render the GIF and the body for recipients[i].
LoopRender ==
  /\ pc = "loop"
  /\ \E ok \in BOOLEAN :
       /\ log' = Append(log, EvRender(i, ok))
       /\ pc' = IF ok THEN "rendered" ELSE "failed"
  /\ UNCHANGED <<config, recipients, last_sent_file, last_sent_email, start_index, i, delivered, run, prev_pc, unpaced>>

\* A failed send that still records the recipient as sent.
LoopSend_WriteOnFailure ==
  /\ pc = "rendered"
  /\ \E ok \in BOOLEAN :
       /\ log' = Append(log, EvSend(i, R(i), ok))
       /\ delivered' = IF ok THEN accept(delivered, i) ELSE delivered
       /\ unpaced' = IF ok THEN count_up(unpaced, LongPauseEvery + 1) ELSE unpaced
       /\ pc' = IF ok THEN "sent" ELSE "failed"
       /\ last_sent_file' = IF ok THEN last_sent_file ELSE set_last_sent(R(i))
  /\ UNCHANGED <<config, recipients, last_sent_email, start_index, i, run, prev_pc>>

\* A failed send that is skipped (continue) instead of stopping the loop.
LoopSend_Continue ==
  /\ pc = "rendered"
  /\ \E ok \in BOOLEAN :
       /\ log' = Append(log, EvSend(i, R(i), ok))
       /\ delivered' = IF ok THEN accept(delivered, i) ELSE delivered
       /\ unpaced' = IF ok THEN count_up(unpaced, LongPauseEvery + 1) ELSE unpaced
       /\ IF ok THEN i' = i /\ pc' = "sent"
          ELSE IF i + 1 < total_recipients
               THEN i' = i + 1 /\ pc' = "loop"
               ELSE i' = i /\ pc' = "completed"
  /\ UNCHANGED <<config, recipients, last_sent_file, last_sent_email, start_index, run, prev_pc>>

\* Lines 323-331: send_message(destination=recipient['Email'], ...); an
\* exception (authentication, build or API call) reaches the except and breaks.
LoopSend ==
  /\ pc = "rendered"
  /\ \E ok \in BOOLEAN :
       /\ log' = Append(log, EvSend(i, R(i), ok))
       /\ delivered' = IF ok THEN accept(delivered, i) ELSE delivered
       /\ unpaced' = IF ok THEN count_up(unpaced, LongPauseEvery + 1) ELSE unpaced
       /\ pc' = IF ok THEN "sent" ELSE "failed"
  /\ UNCHANGED <<config, recipients, last_sent_file, last_sent_email, start_index, i, run, prev_pc>>

\* The checkpoint written for the recipient the run started with.
LoopSetLastSent_First ==
  /\ pc = "sent"
  /\ last_sent_file' = set_last_sent(R(start_index))
  /\ log' = Append(log, EvWrite(i, R(start_index)))
  /\ pc' = "written"
  /\ UNCHANGED <<config, recipients, last_sent_email, start_index, i, delivered, run, prev_pc, unpaced>>

\* Line 333: set_last_sent(recipient['Email']).
LoopSetLastSent ==
  /\ pc = "sent"
  /\ last_sent_file' = set_last_sent(R(i))
  /\ log' = Append(log, EvWrite(i, R(i)))
  /\ pc' = "written"
  /\ UNCHANGED <<config, recipients, last_sent_email, start_index, i, delivered, run, prev_pc, unpaced>>

\* The loop going round without moving to the next recipient.
LoopSleep_NoAdvance ==
  /\ pc = "written"
  /\ log' = Append(log, EvSleep(i, pause_secs(i, start_index)))
  /\ unpaced' = IF pause_secs(i, start_index) = LongPause THEN 0 ELSE unpaced
  /\ i' = i /\ pc' = "loop"
  /\ UNCHANGED <<config, recipients, last_sent_file, last_sent_email, start_index, delivered, run, prev_pc>>

\* Lines 335-341 and the next step of range(start_index, total_recipients).
LoopSleep ==
  /\ pc = "written"
  /\ log' = Append(log, EvSleep(i, pause_secs(i, start_index)))
  /\ unpaced' = IF pause_secs(i, start_index) = LongPause THEN 0 ELSE unpaced
  /\ IF i + 1 < total_recipients
     THEN i' = i + 1 /\ pc' = "loop"
     ELSE i' = i /\ pc' = "completed"
  /\ UNCHANGED <<config, recipients, last_sent_file, last_sent_email, start_index, delivered, run, prev_pc>>

-----------------------------------------------------------------------------
(* The process ends and the operator runs it again *)

\* all_sent: return of line 282; test_done: return of line 311;
\* completed / failed: line 347 after the loop ran out / after the break;
\* exit1: sys.exit(1); killed: the process was terminated.
Terminal == {"all_sent", "test_done", "completed", "failed", "exit1", "killed"}

\* Exit status of the process: sys.exit(1) or a normal return from start().
ExitStatus(p) == IF p = "exit1" THEN 1 ELSE 0

Restart ==
  /\ pc \in Terminal
  /\ run < MaxRuns
  /\ run' = run + 1
  /\ pc' = "start"
  /\ last_sent_email' = None
  /\ start_index' = 0
  /\ i' = 0
  /\ log' = <<>>
  /\ recipients' = <<>>
  /\ prev_pc' = pc
  /\ UNCHANGED <<config, last_sent_file, delivered, unpaced>>

\* The operator running the process again, any number of times; the run
\* number is counted up to MaxRuns only.
Rerun ==
  /\ pc \in Terminal
  /\ run' = count_up(run, MaxRuns)
  /\ pc' = "start"
  /\ last_sent_email' = None
  /\ start_index' = 0
  /\ i' = 0
  /\ log' = <<>>
  /\ recipients' = <<>>
  /\ prev_pc' = pc
  /\ UNCHANGED <<config, last_sent_file, delivered, unpaced>>

-----------------------------------------------------------------------------
(* Termination of the process from outside *)

Prefixes(s) == { SubSeq(s, 1, n) : n \in 0..Len(s) }

\* Killed outside a remote call and outside the file write.
Kill ==
  /\ pc \in {"start", "loop", "written", "test", "test_rendered"}
  /\ pc' = "killed"
  /\ UNCHANGED <<config, recipients, last_sent_file, last_sent_email, start_index, i, log, delivered, run, prev_pc, unpaced>>

\* Killed inside send_message (line 240): the provider may already have
\* accepted the message, but the call never returns.
KillDuringSend ==
  /\ pc = "rendered"
  /\ \E accepted \in BOOLEAN :
       /\ delivered' = IF accepted THEN accept(delivered, i) ELSE delivered
       /\ unpaced' = IF accepted THEN count_up(unpaced, LongPauseEvery + 1) ELSE unpaced
  /\ log' = Append(log, EvSend(i, R(i), FALSE))
  /\ pc' = "killed"
  /\ UNCHANGED <<config, recipients, last_sent_file, last_sent_email, start_index, i, run, prev_pc>>

\* Killed before or inside set_last_sent (lines 83-84): open(..., 'w') has
\* truncated the file or not, and any prefix of the value may have reached it.
KillDuringWrite ==
  /\ pc = "sent"
  /\ \/ UNCHANGED last_sent_file
     \/ \E c \in Prefixes(R(i)) : last_sent_file' = set_last_sent(c)
  /\ pc' = "killed"
  /\ UNCHANGED <<config, recipients, last_sent_email, start_index, i, log, delivered, run, prev_pc, unpaced>>

-----------------------------------------------------------------------------
(* Specifications *)

NextRun ==
  \/ Startup
  \/ TestRender
  \/ TestSend
  \/ LoopRender
  \/ LoopSend
  \/ LoopSetLastSent
  \/ LoopSleep

NextKill ==
  \/ Kill
  \/ KillDuringSend
  \/ KillDuringWrite

\* Runs that end by themselves, restarted by the operator.
Next == NextRun \/ Restart

Spec == Init /\ [][Next]_vars

\* One run over a long list of distinct, well-formed addresses.
SpecPacing == InitPacing /\ [][NextRun]_vars

\* Runs that may also be terminated at any point, restarted by the operator.
SpecKill == Init /\ [][Next \/ NextKill]_vars

\* Restarted runs over lists of up to MaxResumeLen distinct addresses.
SpecResume == InitResume /\ [][Next]_vars

\* One run for every header row recipients.csv can have.
SpecLoad == InitLoad /\ [][NextRun]_vars

\* One run in which every call returns or raises: the process keeps taking
\* steps until start() ends.
SpecTerm == InitPacing /\ [][NextRun]_vars /\ WF_vars(NextRun)

NextLive ==
  \/ Startup
  \/ LoopRender
  \/ LoopSend
  \/ LoopSetLastSent
  \/ LoopSleep
  \/ Rerun

\* The process keeps taking steps, a failed run is always run again, and the
\* render and the send of a recipient succeed if attempted often enough.
LiveFairness ==
  /\ WF_vars(Startup)
  /\ WF_vars(LoopSetLastSent)
  /\ WF_vars(LoopSleep)
  /\ WF_vars(pc = "failed" /\ Rerun)
  /\ \A k \in 0..(MaxLiveLen - 1) :
       /\ SF_vars(LoopRender /\ i = k /\ pc' = "rendered")
       /\ SF_vars(LoopSend /\ i = k /\ pc' = "sent")

\* Normal-mode runs, run again by the operator without limit.
SpecLive == InitLive /\ [][NextLive]_vars /\ LiveFairness

-----------------------------------------------------------------------------
(* Reading the log *)

Positions(op) == { p \in 1..Len(log) : log[p].op = op }

OkSends == { p \in Positions("send") : log[p].ok }

\* The indices of the list that equal the value read from the checkpoint.
Matches == { k \in 0..(total_recipients - 1) : R(k) = last_sent_email }

Least(S) == CHOOSE k \in S : \A m \in S : k <= m

\* Addresses are non-empty, carry no surrounding whitespace and are distinct.
WellFormed ==
  /\ \A k \in 1..Len(csv_file.rows) : csv_file.rows[k] # <<>> /\ strip(csv_file.rows[k]) = csv_file.rows[k]
  /\ \A k, m \in 1..Len(csv_file.rows) : csv_file.rows[k] = csv_file.rows[m] => k = m

-----------------------------------------------------------------------------
(* C1 *)

\* C1 as stated: once start() has computed the resume offset, it is k+1 for
\* every index k whose email equals the checkpoint value read, and 0 when the
\* checkpoint is absent or matches no recipient.
C1_AnyMatch ==
  pc # "start" =>
    /\ \A k \in Matches : start_index = k + 1
    /\ (Matches = {} => start_index = 0)

\* C1 amended: the resume offset is k+1 for the LEAST index k whose email
\* equals the value get_last_sent() returned, and 0 when get_last_sent()
\* returned None or the value equals no recipient's email.
C1_FirstMatch ==
  pc # "start" =>
    start_index = IF last_sent_email = None \/ Matches = {} THEN 0 ELSE Least(Matches) + 1

\* A run resumed after the first of two recipients with the checkpointed email.
C1_Witness ==
  /\ pc = "loop"
  /\ Cardinality(Matches) >= 2
  /\ start_index = Least(Matches) + 1
  /\ start_index > 1

-----------------------------------------------------------------------------
(* C2 *)

\* In the normal-mode loop a checkpoint write directly follows a successful
\* send, is for the same recipient and writes that recipient's email.
C2_WriteOnlyAfterSuccess ==
  \A p \in Positions("write") :
    /\ p > 1
    /\ log[p - 1].op = "send" /\ log[p - 1].ok
    /\ log[p - 1].idx = log[p].idx
    /\ log[p].dest = R(log[p].idx)

\* Every successful send is followed by its write before anything else.
C2_NeverSkipped ==
  /\ \A p \in OkSends : p < Len(log) => log[p + 1].op = "write"
  /\ Cardinality(Positions("write")) = Cardinality(OkSends) - (IF pc = "sent" THEN 1 ELSE 0)

\* After a failure the file holds the email of the last successful send.
C2_AfterFailure ==
  (pc = "failed" /\ OkSends # {}) =>
    last_sent_file = set_last_sent(R(log[CHOOSE p \in OkSends : \A q \in OkSends : q <= p].idx))

\* The file changes only in the step that follows a confirmed send, and then
\* to the email of the recipient just sent to.
C2_FileStep ==
  last_sent_file' # last_sent_file =>
    /\ pc = "sent"
    /\ log # <<>> /\ log[Len(log)].op = "send" /\ log[Len(log)].ok /\ log[Len(log)].idx = i
    /\ last_sent_file' = set_last_sent(R(i))

\* C2: checkpoint monotonicity of the normal-mode loop: the checkpoint is
\* written only after a confirmed successful send and to that recipient's
\* email, exactly once per successful send and before the next attempt, and
\* never when render or send fails, so that after a failure it names the last
\* successfully sent recipient.
C2_CheckpointMonotonic ==
  /\ [](~test_mode => C2_WriteOnlyAfterSuccess /\ C2_NeverSkipped /\ C2_AfterFailure)
  /\ [][C2_FileStep]_vars

\* A run that failed on its second recipient after the first was sent and
\* checkpointed.
C2_Witness ==
  /\ pc = "failed"
  /\ ~test_mode
  /\ OkSends # {}
  /\ ~log[Len(log)].ok
  /\ last_sent_file = set_last_sent(R(i - 1))
  /\ R(i) # R(i - 1)

-----------------------------------------------------------------------------
(* C3 *)

\* C3: on a well-formed recipient list, whatever the points at which runs are
\* terminated and restarted, no recipient has two messages accepted for it.
C3_NoDuplicateSends ==
  WellFormed => \A k \in 1..Len(delivered) : delivered[k] <= 1

-----------------------------------------------------------------------------
(* C4 *)

\* C4: fail-fast: in a normal-mode run nothing follows a failed render or
\* send: the run is in its failed state and no send was attempted for a later
\* recipient.
C4_FailFast ==
  ~test_mode =>
    \A p \in 1..Len(log) :
      ~log[p].ok =>
        /\ pc = "failed"
        /\ \A q \in 1..Len(log) : q > p => log[q].op # "send" /\ log[q].idx <= log[p].idx
        /\ \A q \in Positions("send") : log[q].idx <= log[p].idx

\* A run that failed while recipients remained after the failing one.
C4_Witness ==
  /\ pc = "failed"
  /\ ~test_mode
  /\ ~log[Len(log)].ok
  /\ log[Len(log)].op = "send"
  /\ i + 1 < total_recipients
  /\ start_index < i

-----------------------------------------------------------------------------
(* C5 *)

SendsUpTo(p) == Cardinality({ q \in Positions("send") : q <= p })

LongSleeps == { p \in Positions("sleep") : log[p].secs = LongPause }

\* C5: pacing cadence: the n-th successful send of a run (n counted from the
\* run's first send) is followed, before any further attempt, by one pause,
\* long (1 hour) when n is a multiple of 6 and short (10 minutes) otherwise;
\* so a pause lies between any two send attempts and a long pause inside any
\* 7 consecutive sends.
C5_PacingCadence ==
  ~test_mode =>
    /\ \A p \in OkSends :
         \A q \in 1..Len(log) :
           (q > p /\ log[q].op \in {"render", "send"}) =>
             \E s \in Positions("sleep") :
               /\ p < s /\ s < q
               /\ \A r \in Positions("sleep") : (p < r /\ r < q) => r >= s
               /\ \A r \in Positions("send") : ~(p < r /\ r < s)
               /\ log[s].secs = IF SendsUpTo(p) % 6 = 0 THEN 3600 ELSE 600
    /\ \A p, q \in Positions("send") :
         p < q => \E s \in Positions("sleep") : p < s /\ s < q
    /\ \A p, q \in Positions("send") :
         (p < q /\ SendsUpTo(q) - SendsUpTo(p) >= 6) =>
           \E s \in LongSleeps : p < s /\ s < q

\* A resumed run past its 7th send: the long pause came after its 6th send,
\* which is not the 6th recipient of the list.
C5_Witness ==
  /\ ~test_mode
  /\ start_index > 0
  /\ Cardinality(OkSends) >= 7
  /\ Cardinality(LongSleeps) = 1

-----------------------------------------------------------------------------
(* C6 *)

\* C6: a run whose loop reached the end did not pause after its final send.
C6_NoPauseAfterFinalSend ==
  pc = "completed" => log[Len(log)].op # "sleep"

-----------------------------------------------------------------------------
(* C7 *)

\* Every call of a test-mode run is for recipients[0], every send goes to the
\* test address, none is counted for a recipient and nothing is written.
C7_TestCalls ==
  test_mode =>
    /\ \A p \in 1..Len(log) : log[p].idx = 0 /\ log[p].op \in {"render", "send"}
    /\ \A p \in Positions("send") : log[p].dest = test_email
    /\ \A k \in 1..Len(delivered) : delivered[k] = 0

\* C7: test-mode isolation: a test-mode run sends only to the configured test
\* address, with the content rendered for R[0], and never writes the
\* checkpoint, whether the send succeeds or fails.
C7_TestModeIsolation ==
  /\ []C7_TestCalls
  /\ [][test_mode => last_sent_file' = last_sent_file]_vars

\* A test send made although the checkpoint put the resume offset past R[0].
C7_Witness ==
  /\ test_mode
  /\ pc = "test_done"
  /\ start_index > 0
  /\ Positions("send") # {}
  /\ R(0) # test_email

-----------------------------------------------------------------------------
(* C8 *)

\* C8: a test-mode run over a non-empty list with a test address configured
\* has, when it ends, made exactly one test attempt, whatever the checkpoint.
C8_TestSendAlways ==
  (test_mode /\ total_recipients > 0 /\ test_email # <<>> /\ pc \in Terminal \ {"killed"}) =>
    /\ Cardinality(Positions("render")) = 1
    /\ Cardinality(Positions("send")) <= 1
    /\ ExitStatus(pc) = 0

-----------------------------------------------------------------------------
(* C9 *)

\* C9 as stated: a run that read a checkpoint equal to the last recipient's
\* email ended at once, with no call made.
C9_LastEmail ==
  (pc # "start" /\ total_recipients > 0 /\ last_sent_email = R(total_recipients - 1)) =>
    pc = "all_sent" /\ log = <<>>

\* C9 amended: if the value read from the checkpoint equals the last
\* recipient's email and no earlier recipient has that email, the run ends at
\* once with no send, no pause and no checkpoint write, with exit status 0.
C9_IdempotentNoOp ==
  ( /\ pc # "start"
    /\ total_recipients > 0
    /\ last_sent_email = R(total_recipients - 1)
    /\ \A k \in 0..(total_recipients - 2) : R(k) # last_sent_email ) =>
    /\ pc = "all_sent"
    /\ log = <<>>
    /\ ExitStatus(pc) = 0

\* Such a run, over a list of more than one recipient.
C9_Witness ==
  /\ pc = "all_sent"
  /\ total_recipients > 1
  /\ last_sent_email = R(total_recipients - 1)
  /\ Matches = {total_recipients - 1}
  /\ log = <<>>

-----------------------------------------------------------------------------
(* C10 *)

\* C10: after set_last_sent(e) for a recipient's non-empty email e,
\* get_last_sent() returns exactly e, and the resume scan stops right after
\* that recipient.
C10_ReadAfterWrite ==
  (pc = "written" /\ R(i) # <<>>) =>
    /\ get_last_sent(last_sent_file) = R(i)
    /\ (\A k \in 0..(i - 1) : R(k) # R(i)) =>
         resume_offset(recipients, get_last_sent(last_sent_file)) = i + 1

-----------------------------------------------------------------------------
(* C11 *)

\* C11: a process terminated while it writes the checkpoint for a well-formed
\* recipient leaves a file from which get_last_sent() returns either the value
\* it returned before the write or the new email in full.
C11_CrashAtomicWrite ==
  [][(pc = "sent" /\ pc' = "killed" /\ WellFormed) =>
       get_last_sent(last_sent_file') \in {get_last_sent(last_sent_file), R(i)}]_vars

-----------------------------------------------------------------------------
(* C12 *)

\* config.json cannot be loaded or lacks one of the three keys, or
\* recipients.csv is missing or lacks a required header.
FatalInput ==
  \/ ~config_file.loads
  \/ \E key \in {"subject", "test", "test_email_recipient"} : key \notin config_file.keys
  \/ ~csv_file.exists
  \/ \E h \in required_headers : h \notin csv_file.header

\* C12: with a fatal startup error the process terminates with a non-zero
\* status, having attempted no render and no send, and the checkpoint file is
\* never changed.
C12_FatalBeforeAnySend ==
  /\ [](FatalInput =>
         /\ pc \in {"start", "exit1"}
         /\ log = <<>>
         /\ \A k \in 1..Len(delivered) : delivered[k] = 0
         /\ (pc # "start" => ExitStatus(pc) = 1))
  /\ [][FatalInput => last_sent_file' = last_sent_file]_vars

\* A run stopped by a missing header although config.json is complete, the
\* file has a row and a checkpoint exists.
C12_Witness ==
  /\ pc = "exit1"
  /\ config_file = FullConfig
  /\ csv_file.exists
  /\ csv_file.rows # <<>>
  /\ "Email" \notin csv_file.header
  /\ last_sent_file.exists /\ last_sent_file.content # <<>>

-----------------------------------------------------------------------------
(* C13 *)

\* C13: the exit status tells a run whose loop reached the end (status 0)
\* from a run whose loop broke early on a per-recipient error (non-zero).
C13_StatusReflectsOutcome ==
  /\ (pc = "completed" => ExitStatus(pc) = 0)
  /\ (pc = "failed" => ExitStatus(pc) # 0)

-----------------------------------------------------------------------------
(* C14 *)

\* C14: over a run that stops and the runs restarted after it, the provider
\* never accepts more than 6 messages without a completed long pause.
C14_RateLimitAcrossRuns ==
  unpaced <= 6

-----------------------------------------------------------------------------
(* C15 *)

\* C15: an existing recipients.csv whose header row lacks a required header
\* is rejected with no record produced and no call made; one that has all
\* nine (other columns allowed) yields exactly its rows, in file order.
C15_SchemaValidation ==
  (pc # "start" /\ csv_file.exists) =>
    IF \E h \in required_headers : h \notin csv_file.header
    THEN pc = "exit1" /\ recipients = <<>> /\ log = <<>>
    ELSE /\ Len(recipients) = Len(csv_file.rows)
         /\ \A k \in 1..Len(csv_file.rows) : recipients[k] = csv_file.rows[k]

\* A file with two different rows and an unknown column, rejected because
\* exactly one required header is missing.
C15_Witness ==
  /\ pc = "exit1"
  /\ csv_file.exists
  /\ Cardinality(required_headers \ csv_file.header) = 1
  /\ ExtraHeaders \subseteq csv_file.header
  /\ Len(csv_file.rows) = 2 /\ csv_file.rows[1] # csv_file.rows[2]

-----------------------------------------------------------------------------
(* C16 *)

RendersUpTo(p) == Cardinality({ q \in Positions("render") : q <= p })

\* C16: in a normal-mode run the n-th attempt is for index offset + n - 1,
\* a send is made only for the recipient just rendered, so no index is
\* attempted twice; a failed call is the last call of the run, and the run
\* then stands in its failed state, start() having returned normally.
C16_InOrderNoRetry ==
  ~test_mode =>
    /\ \A p \in Positions("render") : log[p].idx = start_index + RendersUpTo(p) - 1
    /\ \A p \in Positions("send") :
         p > 1 /\ log[p - 1].op = "render" /\ log[p - 1].ok /\ log[p - 1].idx = log[p].idx
    /\ \A p, q \in Positions("send") : p < q => log[p].idx < log[q].idx
    /\ \A p \in 1..Len(log) :
         ~log[p].ok => p = Len(log) /\ pc = "failed" /\ ExitStatus(pc) = 0

\* A resumed run that failed on its second recipient.
C16_Witness ==
  /\ ~test_mode
  /\ pc = "failed"
  /\ start_index > 0
  /\ Cardinality(Positions("render")) >= 2
  /\ ~log[Len(log)].ok

-----------------------------------------------------------------------------
(* C17 *)

\* C17: in a normal-mode run, when the send for R[i] is about to be made the
\* checkpoint file holds R[i-1].email if i is past the resume offset, and
\* still reads as the value read at startup if i is the resume offset.
C17_CursorCheckpoint ==
  (~test_mode /\ pc = "rendered") =>
    IF i > start_index
    THEN last_sent_file = set_last_sent(R(i - 1))
    ELSE get_last_sent(last_sent_file) = last_sent_email

\* The send for the third recipient of a run, the two before having
\* different emails.
C17_Witness ==
  /\ ~test_mode
  /\ pc = "rendered"
  /\ i >= start_index + 2
  /\ R(i - 1) # R(start_index)
  /\ last_sent_file = set_last_sent(R(i - 1))

-----------------------------------------------------------------------------
(* C18 *)

DistinctRows ==
  /\ \A k, m \in 1..Len(csv_file.rows) : csv_file.rows[k] = csv_file.rows[m] => k = m
  /\ \A k \in 1..Len(csv_file.rows) : csv_file.rows[k] # <<>>

\* C18: a normal-mode run whose loop reached the end leaves the last
\* recipient's email in the checkpoint, and the run that follows it over the
\* same list of distinct, non-empty emails makes no call and ends as all sent.
C18_IdempotentRerun ==
  /\ (pc = "completed" => last_sent_file = set_last_sent(R(total_recipients - 1)))
  /\ (prev_pc = "completed" /\ DistinctRows) =>
       /\ log = <<>>
       /\ pc \in {"start", "all_sent"}

-----------------------------------------------------------------------------
(* C19 *)

AllDelivered == \A k \in 1..Len(delivered) : delivered[k] >= 1

\* C19: if failed runs are always run again and the calls for a recipient
\* succeed when attempted often enough, a run eventually ends with nothing
\* left to send, and, starting without a checkpoint, every recipient is
\* eventually sent to by a run whose loop reaches the end of the list.
C19_EventualDelivery ==
  /\ <>(pc \in {"completed", "all_sent"})
  /\ (last_sent_file = NoFile /\ csv_file.rows # <<>>) => <>(pc = "completed" /\ AllDelivered)

-----------------------------------------------------------------------------
(* C20 *)

\* C20: a run whose calls all return or raise makes at most len(R) - offset
\* send attempts in normal mode and at most one in test mode, and reaches a
\* terminal state.
C20_Termination ==
  /\ [](Cardinality(Positions("send")) <= IF test_mode THEN 1 ELSE total_recipients - start_index)
  /\ <>(pc \in Terminal)

\* A resumed run that ended after exactly len(R) - offset sends.
C20_Witness ==
  /\ pc = "completed"
  /\ start_index > 0
  /\ Cardinality(Positions("send")) = total_recipients - start_index
  /\ total_recipients - start_index >= 2

====
